---- MODULE Spec2Model ----
(***************************************************************************)
(* Model of src/src/main.js: the first-person city walk.                   *)
(*                                                                         *)
(* Numbers are fixed point.  Time is counted in ticks of 25 ms, speed in   *)
(* quanta of 0.25 m/s and length in quanta of 1/160 m, so that             *)
(* speed * time = length without a factor.  A product that does not land   *)
(* on the lattice is truncated toward zero.                                *)
(*                                                                         *)
(* The camera keeps the orientation it is constructed with: mouse look     *)
(* (PointerLockControls) is not an input of this model, so camera-local    *)
(* and world axes coincide (right = +x, forward = -z).                     *)
(***************************************************************************)
EXTENDS Integers, Sequences, FiniteSets, TLC

VARIABLES
    pc,             \* position of the top-level script: "spawn", "running", "aborted"
    cellIdx,        \* next cell of the spawn loop (1-based over SpawnCells)
    buildings,      \* const buildings = []       (building geometry records)
    buildingBoxes,  \* const buildingBoxes = []   (Box3 records)
    failures,       \* number of createBuilding calls that threw so far
    nresize,        \* number of resize events handled so far
    camPos,         \* camera.position
    velocity,       \* velocity
    moveState,      \* moveState
    branch,         \* the branch of the collision logic the last frame took
    nkeys,          \* number of key events handled so far
    nframes         \* number of animation frames run so far

vars == <<pc, cellIdx, buildings, buildingBoxes, failures, nresize,
          camPos, velocity, moveState, branch, nkeys, nframes>>

startupVars == <<pc, cellIdx, buildings, buildingBoxes, failures, nresize>>
moveVars == <<camPos, velocity, moveState, branch, nkeys, nframes>>

-----------------------------------------------------------------------------
(* Bounds of the exploration *)

MaxKeys == 2        \* key events per run
MaxFrames == 3      \* animation frames per run
MaxFailures == 1    \* createBuilding calls that throw per run
MaxResizes == 1     \* resize events per run
SceneRadius == 4800 \* tiles farther than this (30 m) from the camera start are left out
LiveBand == 1       \* full fly steps from the ground that fly mode may go (liveness)

-----------------------------------------------------------------------------
(* Units and arithmetic *)

TicksPerSecond == 40                 \* one tick is 25 ms
SpeedUnit == 4                       \* speed quanta per m/s
Unit == SpeedUnit * TicksPerSecond   \* length quanta per metre

Abs(n) == IF n < 0 THEN -n ELSE n
Min2(a, b) == IF a < b THEN a ELSE b
Max2(a, b) == IF a > b THEN a ELSE b

\* n / d truncated toward zero, as a float product is cut to the lattice
Trunc(n, d) == IF n < 0 THEN -((-n) \div d) ELSE n \div d

V3(a, b, c) == [x |-> a, y |-> b, z |-> c]

-----------------------------------------------------------------------------
(* The scene: sidewalk tiles and the buildings spawned on them *)

\* createSidewalkGrid(4, 4, 40, 10, (0, 0, -30)), in length quanta
GridRows == 4
GridCols == 4
TileSize == 40 * Unit
TileGap == 10 * Unit
GridCenter == V3(0, 0, -30 * Unit)
OuterOffset == 20 * Unit

Tile(cx, cz) == [centerX |-> cx, centerZ |-> cz, tileSize |-> TileSize]

SidewalkTiles ==
    LET pitch == TileSize + TileGap
        totalWidth == GridCols * TileSize + (GridCols - 1) * TileGap
        totalDepth == GridRows * TileSize + (GridRows - 1) * TileGap
        startX == GridCenter.x - totalWidth \div 2 + TileSize \div 2
        startZ == GridCenter.z - totalDepth \div 2 + TileSize \div 2
        main == [i \in 1..(GridRows * GridCols) |->
                    Tile(startX + ((i - 1) % GridCols) * pitch,
                         startZ + ((i - 1) \div GridCols) * pitch)]
        top == [c \in 1..(GridCols - 1) |->
                    Tile(startX + (c - 1) * pitch + OuterOffset + 5 * Unit,
                         startZ - pitch)]
        bottom == [c \in 1..(GridCols - 1) |->
                    Tile(startX + (c - 1) * pitch + OuterOffset + 5 * Unit,
                         startZ + (GridRows - 1) * pitch + pitch)]
        left == [r \in 1..(GridRows - 1) |->
                    Tile(startX - pitch,
                         startZ + (r - 1) * pitch + OuterOffset + 5 * Unit)]
        right == [r \in 1..(GridRows - 1) |->
                    Tile(startX + (GridCols - 1) * pitch + pitch,
                         startZ + (r - 1) * pitch + OuterOffset + 5 * Unit)]
    IN  main \o top \o bottom \o left \o right

\* camera.position.set(0, 1.6, 5)
CameraStart == V3(0, (16 * Unit) \div 10, 5 * Unit)

\* The tiles of the scene that the model keeps: those around the camera start.
NearTiles ==
    SelectSeq(SidewalkTiles,
              LAMBDA t : Abs(t.centerX - CameraStart.x) <= SceneRadius
                         /\ Abs(t.centerZ - CameraStart.z) <= SceneRadius)

\* spawnBuildingsOnTiles: the 3 x 3 cells of each tile, row by row
Inner == 30 * Unit
Cells == 3

CellsOfTile(t) ==
    LET effectiveInner == Min2(Inner, t.tileSize - 2 * Unit)
        effectiveCell == effectiveInner \div Cells
        half == effectiveInner \div 2
        footprint == Min2((effectiveCell * 8) \div 10, 8 * Unit)
    IN  [k \in 1..(Cells * Cells) |->
            [bx |-> t.centerX - half + effectiveCell \div 2
                        + ((k - 1) % Cells) * effectiveCell,
             bz |-> t.centerZ - half + effectiveCell \div 2
                        + ((k - 1) \div Cells) * effectiveCell,
             footprint |-> footprint]]

RECURSIVE Flatten(_)
Flatten(ss) == IF ss = <<>> THEN <<>> ELSE Head(ss) \o Flatten(Tail(ss))

SpawnCells == Flatten([i \in 1..Len(NearTiles) |-> CellsOfTile(NearTiles[i])])

\* Math.random(), in thousandths.  The run of draws is fixed: the three draws
\* of the k-th createBuilding call (height choice, width, depth) all return
\* RandomDraws[k], cycling through the sequence.
RandomDraws == <<0, 500, 996>>
DrawAt(k) == RandomDraws[1 + ((k - 1) % Len(RandomDraws))]

\* createBuilding(x, z, 'skyscraper', {width, depth, height}): the geometry
\* of the group that is built.  opts.height is not read by the skyscraper branch.
HeightChoices == <<25 * Unit, 30 * Unit, 35 * Unit>>

BuildingGroup(cell, r) ==
    LET width == (cell.footprint * (800 + (200 * r) \div 1000)) \div 1000
    IN  [x |-> cell.bx, z |-> cell.bz,
         bodyWidth |-> width, bodyDepth |-> width,
         bodyHeight |-> HeightChoices[1 + (r * Len(HeightChoices)) \div 1000]]

\* new THREE.Box3().setFromObject(group): the union of the boxes of the body
\* (base on the ground), the two doors and steps on the +z face, the windows
\* and their frames.  Only the doors reach outside the body:
\* doorZ + doorDepth/2 = bodyDepth/2 + 0.34 m.
DoorReach == (34 * Unit) \div 100

BoxOf(g) ==
    [min |-> V3(g.x - g.bodyWidth \div 2, 0, g.z - g.bodyDepth \div 2),
     max |-> V3(g.x + g.bodyWidth \div 2, g.bodyHeight,
                g.z + g.bodyDepth \div 2 + DoorReach)]

-----------------------------------------------------------------------------
(* Startup: spawnBuildingsOnTiles, recomputeBoxes, the resize handler *)

\* One call of createBuilding.  It either returns, or throws while the group
\* is still being put together (nothing registered yet), or throws after
\* buildings.push(group) and before buildingBoxes.push(box).
Outcomes == {"returns", "throwsBeforePush", "throwsBetweenPushes"}

CreateBuilding(bs, boxes, g, outcome) ==
    CASE outcome = "returns" ->
            [buildings |-> Append(bs, g), buildingBoxes |-> Append(boxes, BoxOf(g))]
      [] outcome = "throwsBeforePush" ->
            [buildings |-> bs, buildingBoxes |-> boxes]
      [] outcome = "throwsBetweenPushes" ->
            [buildings |-> Append(bs, g), buildingBoxes |-> boxes]

\* recomputeBoxes: buildingBoxes[i].setFromObject(buildings[i]) for each i below
\* buildings.length.  Where buildingBoxes has no entry i the call is made on
\* undefined and throws a TypeError; the entries before it are already updated.
RecomputeBoxes(bs, boxes) ==
    [buildingBoxes |-> [i \in 1..Len(boxes) |->
                            IF i <= Len(bs) THEN BoxOf(bs[i]) ELSE boxes[i]],
     threw |-> Len(bs) > Len(boxes)]

\* One turn of the loop over the cells: the call inside try/catch.
SpawnCell(outcome) ==
    /\ pc = "spawn"
    /\ cellIdx <= Len(SpawnCells)
    /\ outcome # "returns" => failures < MaxFailures
    /\ LET res == CreateBuilding(buildings, buildingBoxes,
                                 BuildingGroup(SpawnCells[cellIdx], DrawAt(cellIdx)),
                                 outcome)
       IN  /\ buildings' = res.buildings
           /\ buildingBoxes' = res.buildingBoxes
    /\ failures' = IF outcome = "returns" THEN failures ELSE failures + 1
    /\ cellIdx' = cellIdx + 1
    /\ UNCHANGED <<pc, nresize>>
    /\ UNCHANGED moveVars

\* The end of spawnBuildingsOnTiles and the rest of the script: recomputeBoxes(),
\* then animate() and the resize listener.  An exception of recomputeBoxes is
\* caught by nobody and ends the script.
FinishStartup ==
    /\ pc = "spawn"
    /\ cellIdx > Len(SpawnCells)
    /\ LET res == RecomputeBoxes(buildings, buildingBoxes)
       IN  /\ buildingBoxes' = res.buildingBoxes
           /\ pc' = IF res.threw THEN "aborted" ELSE "running"
    /\ UNCHANGED <<cellIdx, buildings, failures, nresize>>
    /\ UNCHANGED moveVars

\* window 'resize': recomputeBoxes()
Resize ==
    /\ pc = "running"
    /\ nresize < MaxResizes
    /\ buildingBoxes' = RecomputeBoxes(buildings, buildingBoxes).buildingBoxes
    /\ nresize' = nresize + 1
    /\ UNCHANGED <<pc, cellIdx, buildings, failures>>
    /\ UNCHANGED moveVars

-----------------------------------------------------------------------------
(* Player movement state and parameters *)

MoveStateInit ==
    [forward |-> FALSE, backward |-> FALSE, left |-> FALSE, right |-> FALSE,
     sprint |-> FALSE, canJump |-> FALSE, fly |-> FALSE,
     flyUp |-> FALSE, flyDown |-> FALSE]

\* params, in quanta
WalkSpeed == 10 * SpeedUnit
SprintTenths == 18                              \* sprintMultiplier 1.8
Friction == 14
GravityPerTick == (30 * SpeedUnit) \div TicksPerSecond
JumpSpeed == 8 * SpeedUnit
FlySpeed == 20 * SpeedUnit

GroundY == (16 * Unit) \div 10                  \* 1.6
ProjectedY == Unit                              \* 1.0
PlayerHalfSize == V3((35 * Unit) \div 100, (9 * Unit) \div 10, (35 * Unit) \div 100)

KeyCodes == {"ArrowUp", "KeyW", "ArrowLeft", "KeyA", "ArrowDown", "KeyS",
             "ArrowRight", "KeyD", "ShiftLeft", "ShiftRight", "Space",
             "KeyU", "KeyT", "KeyG", "KeyX"}

-----------------------------------------------------------------------------
(* Keyboard handling *)

\* Faulty variant: the jump does not look at fly mode.
JumpKeyIgnoresFly(ms, vel) ==
    IF ms.canJump
    THEN [moveState |-> [ms EXCEPT !.canJump = FALSE],
          velocity |-> [vel EXCEPT !.y = JumpSpeed]]
    ELSE [moveState |-> ms, velocity |-> vel]

\* case 'Space' of onKeyDown
JumpKey(ms, vel) ==
    IF ~ms.fly /\ ms.canJump
    THEN [moveState |-> [ms EXCEPT !.canJump = FALSE],
          velocity |-> [vel EXCEPT !.y = JumpSpeed]]
    ELSE [moveState |-> ms, velocity |-> vel]

\* Faulty variant: KeyU switches fly mode on and never off.
FlyKeyOnOnly(ms, vel) ==
    [moveState |-> [ms EXCEPT !.fly = TRUE],
     velocity |-> [vel EXCEPT !.y = 0]]

\* case 'KeyU' of onKeyDown
FlyKey(ms, vel) ==
    [moveState |-> [ms EXCEPT !.fly = ~ms.fly],
     velocity |-> IF ~ms.fly THEN [vel EXCEPT !.y = 0] ELSE vel]

OnKeyDown(ms, vel, code) ==
    CASE code \in {"ArrowUp", "KeyW"} ->
            [moveState |-> [ms EXCEPT !.forward = TRUE], velocity |-> vel]
      [] code \in {"ArrowLeft", "KeyA"} ->
            [moveState |-> [ms EXCEPT !.left = TRUE], velocity |-> vel]
      [] code \in {"ArrowDown", "KeyS"} ->
            [moveState |-> [ms EXCEPT !.backward = TRUE], velocity |-> vel]
      [] code \in {"ArrowRight", "KeyD"} ->
            [moveState |-> [ms EXCEPT !.right = TRUE], velocity |-> vel]
      [] code \in {"ShiftLeft", "ShiftRight"} ->
            [moveState |-> [ms EXCEPT !.sprint = TRUE], velocity |-> vel]
      [] code = "Space" -> JumpKey(ms, vel)
      [] code = "KeyU" -> FlyKey(ms, vel)
      [] code = "KeyT" ->
            [moveState |-> [ms EXCEPT !.flyUp = TRUE], velocity |-> vel]
      [] code = "KeyG" ->
            [moveState |-> [ms EXCEPT !.flyDown = TRUE], velocity |-> vel]
      [] OTHER -> [moveState |-> ms, velocity |-> vel]

OnKeyUp(ms, code) ==
    CASE code \in {"ArrowUp", "KeyW"} -> [ms EXCEPT !.forward = FALSE]
      [] code \in {"ArrowLeft", "KeyA"} -> [ms EXCEPT !.left = FALSE]
      [] code \in {"ArrowDown", "KeyS"} -> [ms EXCEPT !.backward = FALSE]
      [] code \in {"ArrowRight", "KeyD"} -> [ms EXCEPT !.right = FALSE]
      [] code \in {"ShiftLeft", "ShiftRight"} -> [ms EXCEPT !.sprint = FALSE]
      [] code = "KeyT" -> [ms EXCEPT !.flyUp = FALSE]
      [] code = "KeyG" -> [ms EXCEPT !.flyDown = FALSE]
      [] OTHER -> ms

KeyDown(code) ==
    /\ pc = "running"
    /\ nkeys < MaxKeys
    /\ LET res == OnKeyDown(moveState, velocity, code)
       IN  /\ moveState' = res.moveState
           /\ velocity' = res.velocity
    /\ nkeys' = nkeys + 1
    /\ UNCHANGED <<camPos, branch, nframes>>
    /\ UNCHANGED startupVars

KeyUp(code) ==
    /\ pc = "running"
    /\ nkeys < MaxKeys
    /\ moveState' = OnKeyUp(moveState, code)
    /\ nkeys' = nkeys + 1
    /\ UNCHANGED <<camPos, velocity, branch, nframes>>
    /\ UNCHANGED startupVars

-----------------------------------------------------------------------------
(* Collision *)

\* Box3.intersectsBox: boxes that only touch do intersect
IntersectsBox(a, b) ==
    ~ (\/ b.max.x < a.min.x \/ b.min.x > a.max.x
       \/ b.max.y < a.min.y \/ b.min.y > a.max.y
       \/ b.max.z < a.min.z \/ b.min.z > a.max.z)

PlayerBoxAt(pos) ==
    [min |-> V3(pos.x - PlayerHalfSize.x, pos.y - PlayerHalfSize.y, pos.z - PlayerHalfSize.z),
     max |-> V3(pos.x + PlayerHalfSize.x, pos.y + PlayerHalfSize.y, pos.z + PlayerHalfSize.z)]

WillCollide(pos, boxes) ==
    \E playerBox \in {PlayerBoxAt(pos)} :
       \E i \in 1..Len(boxes) : IntersectsBox(playerBox, boxes[i])

-----------------------------------------------------------------------------
(* The animation frame *)

\* ticks elapsed since the previous frame; 0 for the call made by the script itself
Elapsed == 0..3

\* delta = Math.min((time - prevTime) / 1000, 0.05)
DeltaCap == (5 * TicksPerSecond) \div 100
Delta(elapsed) == Min2(elapsed, DeltaCap)

\* direction, before normalize()
Direction(ms) ==
    [x |-> (IF ms.right THEN 1 ELSE 0) - (IF ms.left THEN 1 ELSE 0),
     z |-> (IF ms.backward THEN 1 ELSE 0) - (IF ms.forward THEN 1 ELSE 0)]

\* direction.normalize(), in ten-thousandths
Normalized(dir) ==
    IF dir.x # 0 /\ dir.z # 0
    THEN [x |-> 7071 * dir.x, z |-> 7071 * dir.z]
    ELSE [x |-> 10000 * dir.x, z |-> 10000 * dir.z]

\* targetVel = moveVec.multiplyScalar(speed)
TargetVel(ms) ==
    LET speed == IF ms.sprint THEN (WalkSpeed * SprintTenths) \div 10 ELSE WalkSpeed
        n == Normalized(Direction(ms))
    IN  [x |-> Trunc(n.x * speed, 10000), z |-> Trunc(n.z * speed, 10000)]

\* 1 - Math.exp(-params.accel * delta), in thousandths, by delta in ticks
LerpAlpha(d) == CASE d = 0 -> 0 [] d = 1 -> 393 [] OTHER -> 632

\* Math.max(0, 1 - params.friction * delta), in thousandths
FrictionFactor(d) == Max2(0, 1000 - (Friction * d * 1000) \div TicksPerSecond)

\* horizVel after lerp and friction
HorizVel(ms, vel, d) ==
    LET t == TargetVel(ms)
        lx == vel.x + Trunc((t.x - vel.x) * LerpAlpha(d), 1000)
        lz == vel.z + Trunc((t.z - vel.z) * LerpAlpha(d), 1000)
        idle == Direction(ms).x = 0 /\ Direction(ms).z = 0
    IN  [x |-> IF idle THEN Trunc(lx * FrictionFactor(d), 1000) ELSE lx,
         z |-> IF idle THEN Trunc(lz * FrictionFactor(d), 1000) ELSE lz]

\* Faulty variant: gravity is applied in fly mode too.
VerticalVelGravityInFly(ms, vel, d) ==
    vel.y - GravityPerTick * d

\* Faulty variant: gravity is not applied at all.
VerticalVelNoGravity(ms, vel, d) ==
    IF ms.fly THEN 0 ELSE vel.y

\* velocity.y after the vertical handling
VerticalVel(ms, vel, d) ==
    IF ms.fly THEN 0 ELSE vel.y - GravityPerTick * d

\* verticalMove; vy is velocity.y after the vertical handling
VerticalMove(ms, vy, d) ==
    IF ms.fly
    THEN (IF ms.flyUp THEN FlySpeed * d ELSE 0) - (IF ms.flyDown THEN FlySpeed * d ELSE 0)
    ELSE vy * d

\* Faulty variant: landing keeps the falling speed.
EnforceGroundKeepsSpeed(ms, next, vy) ==
    IF ~ms.fly /\ next.y < GroundY
    THEN [next |-> [next EXCEPT !.y = GroundY], vy |-> vy, canJump |-> TRUE]
    ELSE [next |-> next, vy |-> vy, canJump |-> ms.canJump]

\* "If not flying, enforce ground (landing)"
EnforceGround(ms, next, vy) ==
    IF ~ms.fly /\ next.y < GroundY
    THEN [next |-> [next EXCEPT !.y = GroundY], vy |-> 0, canJump |-> TRUE]
    ELSE [next |-> next, vy |-> vy, canJump |-> ms.canJump]

\* Faulty variant: the horizontal move is cancelled first, then the vertical.
FlyCollisionHorizontalFirst(cur, next, boxes) ==
    IF ~WillCollide(next, boxes)
    THEN [pos |-> next, stop |-> FALSE, branch |-> "flyFree"]
    ELSE IF ~WillCollide(V3(cur.x, next.y, cur.z), boxes)
    THEN [pos |-> V3(cur.x, next.y, cur.z), stop |-> FALSE, branch |-> "flyNoHorizontal"]
    ELSE IF ~WillCollide(V3(next.x, cur.y, next.z), boxes)
    THEN [pos |-> V3(next.x, cur.y, next.z), stop |-> FALSE, branch |-> "flyNoVertical"]
    ELSE [pos |-> cur, stop |-> TRUE, branch |-> "flyBlocked"]

\* fly mode: full 3D test; cancel the vertical move first, then the horizontal
FlyCollision(cur, next, boxes) ==
    IF ~WillCollide(next, boxes)
    THEN [pos |-> next, stop |-> FALSE, branch |-> "flyFree"]
    ELSE IF ~WillCollide(V3(next.x, cur.y, next.z), boxes)
    THEN [pos |-> V3(next.x, cur.y, next.z), stop |-> FALSE, branch |-> "flyNoVertical"]
    ELSE IF ~WillCollide(V3(cur.x, next.y, cur.z), boxes)
    THEN [pos |-> V3(cur.x, next.y, cur.z), stop |-> FALSE, branch |-> "flyNoHorizontal"]
    ELSE [pos |-> cur, stop |-> TRUE, branch |-> "flyBlocked"]

\* Faulty variant: the slide tries z alone before x alone.
WalkCollisionZFirst(cur, next, boxes) ==
    IF ~WillCollide(V3(next.x, ProjectedY, next.z), boxes)
    THEN [pos |-> next, stop |-> FALSE, branch |-> "walkFree"]
    ELSE IF ~WillCollide(V3(cur.x, ProjectedY, next.z), boxes)
    THEN [pos |-> V3(cur.x, next.y, next.z), stop |-> FALSE, branch |-> "walkSlideZ"]
    ELSE IF ~WillCollide(V3(next.x, ProjectedY, cur.z), boxes)
    THEN [pos |-> V3(next.x, next.y, cur.z), stop |-> FALSE, branch |-> "walkSlideX"]
    ELSE [pos |-> V3(cur.x, next.y, cur.z), stop |-> TRUE, branch |-> "walkBlocked"]

\* walk mode: XZ slide tested at the projected height
WalkCollision(cur, next, boxes) ==
    IF ~WillCollide(V3(next.x, ProjectedY, next.z), boxes)
    THEN [pos |-> next, stop |-> FALSE, branch |-> "walkFree"]
    ELSE IF ~WillCollide(V3(next.x, ProjectedY, cur.z), boxes)
    THEN [pos |-> V3(next.x, next.y, cur.z), stop |-> FALSE, branch |-> "walkSlideX"]
    ELSE IF ~WillCollide(V3(cur.x, ProjectedY, next.z), boxes)
    THEN [pos |-> V3(cur.x, next.y, next.z), stop |-> FALSE, branch |-> "walkSlideZ"]
    ELSE [pos |-> V3(cur.x, next.y, cur.z), stop |-> TRUE, branch |-> "walkBlocked"]

\* nextPos as first proposed: currentPos + horizontalMove, then + verticalMove
ProposedPos(ms, vel, cur, d) ==
    LET h == HorizVel(ms, vel, d)
    IN  V3(cur.x + h.x * d,
           cur.y + VerticalMove(ms, VerticalVel(ms, vel, d), d),
           cur.z + h.z * d)

\* The effect of one call of animate(), elapsed ticks after the previous one.
\* Each stage of the frame is bound to its value in turn, as the code's locals are.
AnimateStep(elapsed) ==
    /\ pc = "running"
    /\ \E d \in {Delta(elapsed)} :
       \E h \in {HorizVel(moveState, velocity, d)} :
       \E vy \in {VerticalVel(moveState, velocity, d)} :
       \E nextPos \in {ProposedPos(moveState, velocity, camPos, d)} :
       \E g \in {EnforceGround(moveState, nextPos, vy)} :
       \E c \in {IF moveState.fly THEN FlyCollision(camPos, g.next, buildingBoxes)
                                   ELSE WalkCollision(camPos, g.next, buildingBoxes)} :
          /\ camPos' = c.pos
          /\ velocity' = IF c.stop THEN V3(0, g.vy, 0) ELSE V3(h.x, g.vy, h.z)
          /\ moveState' = [moveState EXCEPT !.canJump = g.canJump]
          /\ branch' = c.branch
    /\ UNCHANGED startupVars

Animate(elapsed) ==
    /\ nframes < MaxFrames
    /\ nframes' = nframes + 1
    /\ UNCHANGED nkeys
    /\ AnimateStep(elapsed)

-----------------------------------------------------------------------------
(* Specifications *)

\* The script from its first statement to the running loop, with resizes.
StartupInit ==
    /\ pc = "spawn"
    /\ cellIdx = 1
    /\ buildings = <<>>
    /\ buildingBoxes = <<>>
    /\ failures = 0
    /\ nresize = 0
    /\ camPos = CameraStart
    /\ velocity = V3(0, 0, 0)
    /\ moveState = MoveStateInit
    /\ branch = "none"
    /\ nkeys = 0
    /\ nframes = 0

StartupNext ==
    \/ \E o \in Outcomes : SpawnCell(o)
    \/ FinishStartup
    \/ Resize

StartupSpec == StartupInit /\ [][StartupNext]_vars

\* The scene as the script leaves it when no call throws.
RECURSIVE Spawned(_)
Spawned(k) ==
    IF k = 0 THEN [buildings |-> <<>>, buildingBoxes |-> <<>>]
    ELSE LET s == Spawned(k - 1)
         IN  CreateBuilding(s.buildings, s.buildingBoxes,
                            BuildingGroup(SpawnCells[k], DrawAt(k)), "returns")

Scene ==
    LET s == Spawned(Len(SpawnCells))
    IN  [buildings |-> s.buildings,
         buildingBoxes |-> RecomputeBoxes(s.buildings, s.buildingBoxes).buildingBoxes]

\* The state the script leaves: the loop is running, the player stands at the start.
Init ==
    /\ pc = "running"
    /\ cellIdx = Len(SpawnCells) + 1
    /\ buildings = Scene.buildings
    /\ buildingBoxes = Scene.buildingBoxes
    /\ failures = 0
    /\ nresize = 0
    /\ camPos = CameraStart
    /\ velocity = V3(0, 0, 0)
    /\ moveState = MoveStateInit
    /\ branch = "none"
    /\ nkeys = 0
    /\ nframes = 0

Next ==
    \/ \E c \in KeyCodes : KeyDown(c)
    \/ \E c \in KeyCodes : KeyUp(c)
    \/ \E e \in Elapsed : Animate(e)

Spec == Init /\ [][Next]_vars

\* Exploration from four states of the running program that the player gets
\* to from the start, all near the building that faces the start on the right
\* (the spawn loop's 16th cell, centred at x = 15 m, z = 5 m):
\*   AtWall    - walked right (KeyD) up to the west wall and released the key;
\*   AtCorner  - the same, and back (KeyS) past the building's +z face: just
\*               outside its corner;
\*   OverRoof  - fly mode on (KeyU), climbed (KeyT) above the roof and moved
\*               right until the player is centred on the roof's west edge;
\*   RoofEdge  - the same climb, stopped just short of the roof's west edge.
\* The player stands or hovers with every key released.  A frame on the ground
\* has run, so canJump is set.  The hover height is on the lattice of fly
\* steps (one tick of flying) above the ground.
FacingBox == Scene.buildingBoxes[16]
HoverY ==
    GroundY + FlySpeed * ((FacingBox.max.y + PlayerHalfSize.y - GroundY) \div FlySpeed + 1)
Clearance == 10      \* quanta between the probe's player box and the wall it faces

AtWall == V3(FacingBox.min.x - PlayerHalfSize.x - Clearance, GroundY, CameraStart.z)
AtCorner == V3(FacingBox.min.x - PlayerHalfSize.x - Clearance, GroundY,
               FacingBox.max.z + PlayerHalfSize.z + Clearance)
OverRoof == V3(FacingBox.min.x, HoverY, CameraStart.z)
RoofEdge == V3(FacingBox.min.x - PlayerHalfSize.x - Clearance, HoverY, CameraStart.z)

SceneInit ==
    /\ pc = "running"
    /\ cellIdx = Len(SpawnCells) + 1
    /\ buildings = Scene.buildings
    /\ buildingBoxes = Scene.buildingBoxes
    /\ failures = 0
    /\ nresize = 0
    /\ velocity = V3(0, 0, 0)
    /\ branch = "none"
    /\ nkeys = 0
    /\ nframes = 0
    /\ \/ camPos \in {AtWall, AtCorner}
          /\ moveState = [MoveStateInit EXCEPT !.canJump = TRUE]
       \/ camPos \in {OverRoof, RoofEdge}
          /\ moveState = [MoveStateInit EXCEPT !.canJump = TRUE, !.fly = TRUE]

SceneSpec == SceneInit /\ [][Next]_vars

\* Frames without end, for what the program does in the long run.  Only the
\* keys of the vertical movement are pressed, so the player stays at the start
\* in x and z, and fly mode keeps within LiveBand fly steps of the ground.
\* requestAnimationFrame(animate) re-arms the loop in every frame: frames with
\* time elapsed keep coming.
LiveKeys == {"Space", "KeyU", "KeyT", "KeyG"}
LiveElapsed == {0, 2}

LiveKeyDown(code) ==
    /\ pc = "running"
    /\ LET res == OnKeyDown(moveState, velocity, code)
       IN  /\ moveState' = res.moveState
           /\ velocity' = res.velocity
    /\ UNCHANGED <<camPos, branch, nkeys, nframes>>
    /\ UNCHANGED startupVars

LiveKeyUp(code) ==
    /\ pc = "running"
    /\ moveState' = OnKeyUp(moveState, code)
    /\ UNCHANGED <<camPos, velocity, branch, nkeys, nframes>>
    /\ UNCHANGED startupVars

LiveAnimate(elapsed) ==
    /\ AnimateStep(elapsed)
    /\ moveState.fly => Abs(camPos'.y - GroundY) <= LiveBand * FlySpeed * DeltaCap
    /\ UNCHANGED <<nkeys, nframes>>

LiveNext ==
    \/ \E c \in LiveKeys : LiveKeyDown(c)
    \/ \E c \in LiveKeys : LiveKeyUp(c)
    \/ \E e \in LiveElapsed : LiveAnimate(e)

LiveSpec ==
    /\ Init
    /\ [][LiveNext]_vars
    /\ WF_vars(\E e \in LiveElapsed \ {0} : LiveAnimate(e))

-----------------------------------------------------------------------------
(* The claims *)

\* C1: the player never enters a building: in every state of the running
\* program the player box around the camera position intersects no box of
\* buildingBoxes, in walk mode, in fly mode and across fly-mode toggles.
C1_NeverInsideBuilding ==
    pc = "running" => ~WillCollide(camPos, buildingBoxes)

\* C2: the two parallel arrays stay the same length and entry i of
\* buildingBoxes is the box of buildings[i], also after a createBuilding call
\* that failed part-way and was caught.
C2_ParallelArrays ==
    /\ Len(buildings) = Len(buildingBoxes)
    /\ \A i \in 1..Len(buildingBoxes) : buildingBoxes[i] = BoxOf(buildings[i])

\* C5: a failure of createBuilding is contained: once the spawn loop is left,
\* every cell was attempted, recomputeBoxes ran to completion and the
\* animation loop is running.
C5_FailureContained ==
    pc # "spawn" => (pc = "running" /\ cellIdx = Len(SpawnCells) + 1)

\* The vertical displacement fly mode asks for, from the keys held.
FlyDisplacement(ms, d) ==
    IF ms.flyUp /\ ~ms.flyDown THEN FlySpeed * d
    ELSE IF ms.flyDown /\ ~ms.flyUp THEN -(FlySpeed * d)
    ELSE 0

C4_FlyToggledByKeyUOnly ==
    /\ ~moveState.fly
    /\ [][/\ KeyDown("KeyU") => (moveState'.fly = ~moveState.fly)
          /\ (moveState'.fly # moveState.fly) => KeyDown("KeyU")
         ]_vars

\* One key event has been handled and fly mode is on: the key was KeyU.
C4_Witness ==
    /\ nkeys = 1 /\ nframes = 0
    /\ moveState.fly

\* C6: after every frame run with fly mode off the committed height is at
\* least 1.6, and when the frame's proposed height is below 1.6 the frame
\* commits exactly 1.6, zeroes velocity.y and sets canJump.
C6_GroundEnforced ==
    [][\A e \in Elapsed :
        (~moveState.fly /\ Animate(e)) =>
            /\ 10 * camPos'.y >= 16 * Unit
            /\ (10 * (camPos.y + (velocity.y - GravityPerTick * Delta(e)) * Delta(e)) < 16 * Unit)
                  => /\ 10 * camPos'.y = 16 * Unit
                     /\ velocity'.y = 0
                     /\ moveState'.canJump
      ]_vars

\* A frame in walk mode has put the player on the ground: canJump, which is
\* clear at startup, is set.
C6_Witness ==
    /\ ~moveState.fly /\ moveState.canJump
    /\ branch = "walkFree"
    /\ camPos.y = GroundY /\ velocity.y = 0

\* C8: a Space keydown sets velocity.y to jumpSpeed and clears canJump exactly
\* when fly is off and canJump is set; otherwise it changes nothing of the
\* movement state.
C8_JumpOnlyWhenAllowed ==
    [][KeyDown("Space") =>
          IF ~moveState.fly /\ moveState.canJump
          THEN /\ velocity' = [velocity EXCEPT !.y = 8 * SpeedUnit]
               /\ moveState' = [moveState EXCEPT !.canJump = FALSE]
               /\ UNCHANGED <<camPos, branch>>
          ELSE UNCHANGED <<velocity, moveState, camPos, branch>>
      ]_vars

\* The player has jumped: velocity.y is the jump speed and canJump is clear.
C8_Witness ==
    /\ ~moveState.fly /\ ~moveState.canJump
    /\ velocity.y = JumpSpeed

\* C9: a frame in fly mode commits the proposed position if it is free, else
\* (next x, current y, next z) if that is free, else (current x, proposed y,
\* current z) if that is free, else leaves the position and zeroes velocity.x
\* and velocity.z; the committed position is free or the current one.
C9_FlyCollisionOrder ==
    [][\A e \in Elapsed :
        (moveState.fly /\ Animate(e)) =>
            LET p == ProposedPos(moveState, velocity, camPos, Delta(e))
                noVertical == V3(p.x, camPos.y, p.z)
                noHorizontal == V3(camPos.x, p.y, camPos.z)
            IN  /\ IF ~WillCollide(p, buildingBoxes) THEN camPos' = p
                   ELSE IF ~WillCollide(noVertical, buildingBoxes)
                        THEN camPos' = noVertical
                   ELSE IF ~WillCollide(noHorizontal, buildingBoxes)
                        THEN camPos' = noHorizontal
                   ELSE /\ camPos' = camPos
                        /\ velocity'.x = 0 /\ velocity'.z = 0
                /\ ~WillCollide(camPos', buildingBoxes) \/ camPos' = camPos
      ]_vars

\* A frame in fly mode met the roof while descending and moving sideways: the
\* vertical move was cancelled, the horizontal one committed.
C9_Witness ==
    /\ moveState.fly /\ moveState.flyDown
    /\ branch = "flyNoVertical"
    /\ camPos.y = HoverY
    /\ camPos.x # OverRoof.x /\ camPos.x # RoofEdge.x

\* C10: a frame in walk mode tests the slide at height 1.0: the horizontal
\* move is committed if (next x, 1.0, next z) is free; else x alone advances
\* if (next x, 1.0, current z) is free; else z alone advances if
\* (current x, 1.0, next z) is free; else x and z stay and velocity.x and
\* velocity.z are zeroed.  The height is the proposed one, raised to the
\* ground: the slide does not alter it.
C10_WalkSlide ==
    [][\A e \in Elapsed :
        (~moveState.fly /\ Animate(e)) =>
            LET p == ProposedPos(moveState, velocity, camPos, Delta(e))
            IN  /\ IF ~WillCollide(V3(p.x, Unit, p.z), buildingBoxes)
                   THEN camPos'.x = p.x /\ camPos'.z = p.z
                   ELSE IF ~WillCollide(V3(p.x, Unit, camPos.z), buildingBoxes)
                        THEN camPos'.x = p.x /\ camPos'.z = camPos.z
                   ELSE IF ~WillCollide(V3(camPos.x, Unit, p.z), buildingBoxes)
                        THEN camPos'.x = camPos.x /\ camPos'.z = p.z
                   ELSE /\ camPos'.x = camPos.x /\ camPos'.z = camPos.z
                        /\ velocity'.x = 0 /\ velocity'.z = 0
                /\ camPos'.y = Max2(p.y, GroundY)
      ]_vars

\* A frame in walk mode ran diagonally into the building's corner, where x
\* alone and z alone are both free: x advanced, z stayed.
C10_Witness ==
    /\ ~moveState.fly
    /\ branch = "walkSlideX"
    /\ camPos.z = AtCorner.z /\ camPos.x > AtCorner.x

\* The player stands on the ground.
Grounded ==
    camPos.y = GroundY /\ velocity.y = 0 /\ moveState.canJump

====
